---- MODULE Spec2Model ----
(***************************************************************************)
(* Threshold-driven trading simulator (src/dashboard/app.py,               *)
(* run_threshold_simulation) and its grid search (run_grid_search).        *)
(*                                                                         *)
(* Python floats are modelled as exact rationals <<numerator, denominator>>*)
(* in lowest terms with a positive denominator.  Timestamps are day counts;*)
(* the panels considered space their rows by whole multiples of 365 days,  *)
(* so that (1 + rate) ** (days_delta / 365) is a rational power.           *)
(***************************************************************************)
EXTENDS Integers, Sequences, FiniteSets, TLC

VARIABLES
    cfg,          \* arguments of run_threshold_simulation (all but the panel)
    price_panel,  \* the panel argument: the cell values and the index gaps it may hold
    pc,           \* position in run_threshold_simulation
    dt,           \* timestamp of the row being processed, in days
    k,            \* position of the inner "for ticker in tickers" loop (1-based)
    nrows,        \* number of panel rows consumed so far
    sim,          \* the locals: cash_balance, state, trades, equity_curve, prev_dt
    ret,          \* what the call returned or raised
    grid,         \* run_grid_search: its lever sequences and its locals
    upd           \* the updater: arguments and locals of download_ohlcv or main

vars == <<cfg, price_panel, pc, dt, k, nrows, sim, ret, grid, upd>>

\* ------------------------------------------------------------------------
\* Bounds
\* ------------------------------------------------------------------------
MaxRows == 4
MaxGridRows == 3
MaxPoint == 3
MaxRetries == 3
MaxTickers == 3

\* ------------------------------------------------------------------------
\* Numbers
\* ------------------------------------------------------------------------
None == <<>>
NaN == <<>>

Abs(x) == IF x < 0 THEN -x ELSE x

RECURSIVE GCD(_, _)
GCD(a, b) == IF b = 0 THEN a ELSE GCD(b, a % b)

Norm(n, d) ==
    LET g == GCD(Abs(n), Abs(d))
        s == IF d < 0 THEN -1 ELSE 1
    IN  <<(s * n) \div g, (s * d) \div g>>

Last(q) == q[Len(q)]

R(n) == <<n, 1>>
RAdd(a, b) == Norm(a[1] * b[2] + b[1] * a[2], a[2] * b[2])
RSub(a, b) == Norm(a[1] * b[2] - b[1] * a[2], a[2] * b[2])
RMul(a, b) == Norm(a[1] * b[1], a[2] * b[2])
RDiv(a, b) == Norm(a[1] * b[2], a[2] * b[1])
RLt(a, b) == a[1] * b[2] < b[1] * a[2]
RLe(a, b) == a[1] * b[2] <= b[1] * a[2]
RAbs(a) == <<Abs(a[1]), a[2]>>
RNeg(a) == <<-a[1], a[2]>>
RMax(a, b) == IF RLt(a, b) THEN b ELSE a

RECURSIVE RPow(_, _)
RPow(b, e) == IF e = 0 THEN R(1) ELSE RMul(b, RPow(b, e - 1))

\* list[i] of Python for a list of length n, as a 1-based position;
\* 0 stands for "IndexError: list index out of range".
PyIndex(n, i) ==
    LET p == IF i < 0 THEN n + i + 1 ELSE i + 1
    IN  IF p >= 1 /\ p <= n THEN p ELSE 0

\* ------------------------------------------------------------------------
\* run_threshold_simulation: set-up
\* ------------------------------------------------------------------------
\* Mutant: sign slip, the buy fee factor is 1 - fee_bps/10000.
fee_buy_sign_slip(c) == RSub(R(1), RDiv(R(c.fee_bps), R(10000)))

fee_buy(c) == RAdd(R(1), RDiv(R(c.fee_bps), R(10000)))
\* Mutant: sign slip, the sell fee factor is 1 + fee_bps/10000.
fee_sell_sign_slip(c) == RAdd(R(1), RDiv(R(c.fee_bps), R(10000)))

fee_sell(c) == RSub(R(1), RDiv(R(c.fee_bps), R(10000)))
annual_cash_yield(c) == RDiv(RMax(R(0), R(c.annual_cash_yield_pct)), R(100))
annual_borrow_rate(c) == RDiv(RMax(R(0), R(c.annual_borrow_rate_pct)), R(100))

TickerSet(c) == {c.tickers[i] : i \in 1..Len(c.tickers)}

InitialTickerState ==
    [shares |-> R(0), last_price |-> None, buy_count |-> 0, sell_count |-> 0,
     history |-> <<>>, notional_bought |-> R(0), proceeds_sold |-> R(0)]

InitialLocals(c) ==
    [cash_balance |-> RMax(R(0), R(c.starting_cash)),
     state |-> [t \in TickerSet(c) |-> InitialTickerState],
     trades |-> <<>>,
     equity_curve |-> <<>>,
     prev_dt |-> None,
     exc |-> ""]

Raise(s, e) == [s EXCEPT !.exc = e]

\* ------------------------------------------------------------------------
\* buy_one_unit
\* ------------------------------------------------------------------------
\* Mutant: checks that cash is positive, not that it covers the unit.
buy_skipped_cash_positive(s, c, ticker) ==
    LET unit_usd == R(c.buy_unit_by_ticker[ticker])
    IN  \/ RLe(unit_usd, R(0))
        \/ (~c.allow_leverage) /\ RLt(s.cash_balance, R(0))

buy_skipped(s, c, ticker) ==
    LET unit_usd == R(c.buy_unit_by_ticker[ticker])
    IN  \/ RLe(unit_usd, R(0))
        \/ (~c.allow_leverage) /\ RLt(s.cash_balance, unit_usd)

buy_one_unit(s, c, ticker, now, price, signal_ret, signal_window) ==
    LET stt == s.state[ticker]
        unit_usd == R(c.buy_unit_by_ticker[ticker])
        cash_before == s.cash_balance
        cash_after == RSub(s.cash_balance, unit_usd)
    IN  IF buy_skipped(s, c, ticker) THEN s
        ELSE IF price[1] = 0
        THEN Raise([s EXCEPT !.cash_balance = cash_after], "ZeroDivisionError")
        ELSE LET shares_bought == RDiv(RDiv(unit_usd, fee_buy(c)), price)
                 shares_after == RAdd(stt.shares, shares_bought)
             IN  [s EXCEPT
                    !.cash_balance = cash_after,
                    !.state[ticker].shares = shares_after,
                    !.state[ticker].buy_count = @ + 1,
                    !.state[ticker].notional_bought = RAdd(@, unit_usd),
                    !.trades = Append(@,
                        [dt |-> now, ticker |-> ticker, action |-> "BUY",
                         price |-> price, shares |-> shares_bought,
                         order_usd |-> unit_usd,
                         cash_before |-> cash_before, cash_after |-> cash_after,
                         shares_after |-> shares_after,
                         signal_return_pct |-> signal_ret,
                         signal_window_days |-> signal_window])]

\* ------------------------------------------------------------------------
\* The per-timestamp loop body
\* ------------------------------------------------------------------------
\* Mutant: symmetric carry, debt compounds at the cash yield.
apply_carry_symmetric(s, c, now) ==
    IF s.prev_dt = None THEN s
    ELSE LET days_delta == IF now - s.prev_dt[1] > 0 THEN now - s.prev_dt[1] ELSE 0
             years == days_delta \div 365
         IN  IF days_delta > 0 /\ RLt(R(0), annual_cash_yield(c))
             THEN [s EXCEPT !.cash_balance =
                      RMul(@, RPow(RAdd(R(1), annual_cash_yield(c)), years))]
             ELSE s

apply_carry(s, c, now) ==
    IF s.prev_dt = None THEN s
    ELSE LET days_delta == IF now - s.prev_dt[1] > 0 THEN now - s.prev_dt[1] ELSE 0
             years == days_delta \div 365
         IN  IF days_delta > 0 /\ RLt(R(0), s.cash_balance)
                /\ RLt(R(0), annual_cash_yield(c))
             THEN [s EXCEPT !.cash_balance =
                      RMul(@, RPow(RAdd(R(1), annual_cash_yield(c)), years))]
             ELSE IF days_delta > 0 /\ RLt(s.cash_balance, R(0))
                     /\ RLt(R(0), annual_borrow_rate(c))
             THEN [s EXCEPT !.cash_balance =
                      RMul(@, RPow(RAdd(R(1), annual_borrow_rate(c)), years))]
             ELSE s

begin_row(s, c, now) == [apply_carry(s, c, now) EXCEPT !.prev_dt = <<now>>]

\* Mutant: the window counts the current observation (off by one).
trailing_return_inclusive(hist, window) ==
    IF ~(Len(hist) >= window) THEN [exc |-> "", val |-> None]
    ELSE LET j == PyIndex(Len(hist), -window)
         IN  IF j = 0 THEN [exc |-> "IndexError", val |-> None]
             ELSE IF hist[j][1] = 0 THEN [exc |-> "ZeroDivisionError", val |-> None]
             ELSE [exc |-> "",
                   val |-> RMul(RSub(RDiv(hist[Len(hist)], hist[j]), R(1)), R(100))]

\* ((hist[-1] / hist[-1 - window]) - 1.0) * 100.0, guarded by len(hist) > window
trailing_return(hist, window) ==
    IF ~(Len(hist) > window) THEN [exc |-> "", val |-> None]
    ELSE LET j == PyIndex(Len(hist), -1 - window)
         IN  IF j = 0 THEN [exc |-> "IndexError", val |-> None]
             ELSE IF hist[j][1] = 0 THEN [exc |-> "ZeroDivisionError", val |-> None]
             ELSE [exc |-> "",
                   val |-> RMul(RSub(RDiv(hist[Len(hist)], hist[j]), R(1)), R(100))]

\* Mutant: the threshold must be exceeded, not reached.
buy_signal_strict(c, buy_ret) ==
    buy_ret # None /\ RLt(R(c.buy_threshold_pct), buy_ret)

buy_signal(c, buy_ret) ==
    buy_ret # None /\ RLe(R(c.buy_threshold_pct), buy_ret)

\* Mutant: the sell threshold is used with its sign.
sell_signal_signed(c, sell_ret) ==
    IF sell_ret = None THEN FALSE
    ELSE IF c.sell_mode = "Sell on drop"
    THEN RLe(sell_ret, RNeg(R(c.sell_threshold_pct)))
    ELSE RLe(R(c.sell_threshold_pct), sell_ret)

sell_signal(c, sell_ret) ==
    IF sell_ret = None THEN FALSE
    ELSE IF c.sell_mode = "Sell on drop"
    THEN RLe(sell_ret, RNeg(RAbs(R(c.sell_threshold_pct))))
    ELSE RLe(RAbs(R(c.sell_threshold_pct)), sell_ret)

\* Mutant: the re-entry flag is ignored.
can_reenter_always(c, stt) == TRUE

can_reenter(c, stt) == c.allow_reentry \/ stt.buy_count = 0

\* Mutant: the SELL is booked but the position is not reset.
sell_all_keeps_shares(s, c, ticker, now, price, sell_ret) ==
    LET stt == s.state[ticker]
        net == RMul(RMul(stt.shares, price), fee_sell(c))
    IN  [s EXCEPT
           !.cash_balance = RAdd(@, net),
           !.state[ticker].sell_count = @ + 1,
           !.state[ticker].proceeds_sold = RAdd(@, net),
           !.trades = Append(@,
               [dt |-> now, ticker |-> ticker, action |-> "SELL",
                price |-> price, shares |-> stt.shares,
                proceeds_net |-> net,
                cash_before |-> s.cash_balance, cash_after |-> RAdd(s.cash_balance, net),
                shares_after |-> stt.shares,
                signal_return_pct |-> sell_ret,
                signal_window_days |-> c.sell_window_days])]

sell_all(s, c, ticker, now, price, sell_ret) ==
    LET stt == s.state[ticker]
        shares_before == stt.shares
        cash_before == s.cash_balance
        gross == RMul(shares_before, price)
        net == RMul(gross, fee_sell(c))
        cash_after == RAdd(cash_before, net)
    IN  [s EXCEPT
           !.cash_balance = cash_after,
           !.state[ticker].shares = R(0),
           !.state[ticker].sell_count = @ + 1,
           !.state[ticker].proceeds_sold = RAdd(@, net),
           !.trades = Append(@,
               [dt |-> now, ticker |-> ticker, action |-> "SELL",
                price |-> price, shares |-> shares_before,
                proceeds_net |-> net,
                cash_before |-> cash_before, cash_after |-> cash_after,
                shares_after |-> R(0),
                signal_return_pct |-> sell_ret,
                signal_window_days |-> c.sell_window_days])]

\* Mutant: a held ticker tests the buy signal before the sell signal.
trade_on_signals_buy_first(s, c, ticker, now, price, buy_ret, sell_ret) ==
    LET stt == s.state[ticker]
    IN  IF RLe(stt.shares, R(0))
        THEN IF can_reenter(c, stt) /\ buy_signal(c, buy_ret)
             THEN buy_one_unit(s, c, ticker, now, price, buy_ret, c.buy_window_days)
             ELSE s
        ELSE IF buy_signal(c, buy_ret)
             THEN buy_one_unit(s, c, ticker, now, price, buy_ret, c.buy_window_days)
             ELSE IF sell_signal(c, sell_ret)
             THEN sell_all(s, c, ticker, now, price, sell_ret)
             ELSE s

\* Mutant: after a SELL the flat ticker is tested for a buy at once.
trade_on_signals_rebuys(s, c, ticker, now, price, buy_ret, sell_ret) ==
    LET stt == s.state[ticker]
    IN  IF RLe(stt.shares, R(0))
        THEN IF can_reenter(c, stt) /\ buy_signal(c, buy_ret)
             THEN buy_one_unit(s, c, ticker, now, price, buy_ret, c.buy_window_days)
             ELSE s
        ELSE IF sell_signal(c, sell_ret)
             THEN LET sold == sell_all(s, c, ticker, now, price, sell_ret)
                  IN  IF can_reenter(c, sold.state[ticker]) /\ buy_signal(c, buy_ret)
                      THEN buy_one_unit(sold, c, ticker, now, price, buy_ret,
                                        c.buy_window_days)
                      ELSE sold
             ELSE IF buy_signal(c, buy_ret)
             THEN buy_one_unit(s, c, ticker, now, price, buy_ret, c.buy_window_days)
             ELSE s

trade_on_signals(s, c, ticker, now, price, buy_ret, sell_ret) ==
    LET stt == s.state[ticker]
    IN  IF RLe(stt.shares, R(0))
        THEN IF can_reenter(c, stt) /\ buy_signal(c, buy_ret)
             THEN buy_one_unit(s, c, ticker, now, price, buy_ret, c.buy_window_days)
             ELSE s
        ELSE IF sell_signal(c, sell_ret)
             THEN sell_all(s, c, ticker, now, price, sell_ret)
             ELSE IF buy_signal(c, buy_ret)
             THEN buy_one_unit(s, c, ticker, now, price, buy_ret, c.buy_window_days)
             ELSE s

\* Mutant: last_price is assigned before the missing-price test.
process_ticker_missing_overwrites(s, c, ticker, now, px) ==
    IF px = NaN THEN [s EXCEPT !.state[ticker].last_price = None]
    ELSE LET s1 == [s EXCEPT !.state[ticker].last_price = px,
                             !.state[ticker].history = Append(@, px)]
             hist == s1.state[ticker].history
             b == trailing_return(hist, c.buy_window_days)
             sl == trailing_return(hist, c.sell_window_days)
         IN  IF b.exc # "" THEN Raise(s1, b.exc)
             ELSE IF sl.exc # "" THEN Raise(s1, sl.exc)
             ELSE trade_on_signals(s1, c, ticker, now, px, b.val, sl.val)

process_ticker(s, c, ticker, now, px) ==
    IF px = NaN THEN s
    ELSE LET s1 == [s EXCEPT !.state[ticker].last_price = px,
                             !.state[ticker].history = Append(@, px)]
             hist == s1.state[ticker].history
             b == trailing_return(hist, c.buy_window_days)
             sl == trailing_return(hist, c.sell_window_days)
         IN  IF b.exc # "" THEN Raise(s1, b.exc)
             ELSE IF sl.exc # "" THEN Raise(s1, sl.exc)
             ELSE trade_on_signals(s1, c, ticker, now, px, b.val, sl.val)

position_value(stt) ==
    RMul(stt.shares, IF stt.last_price # None THEN stt.last_price ELSE R(0))

\* Mutant: the accumulator is overwritten ("=" for "+="): last ticker only.
invested_value_overwritten(s, tickers, n) ==
    IF n = 0 THEN R(0) ELSE position_value(s.state[tickers[n]])

RECURSIVE invested_value(_, _, _)
invested_value(s, tickers, n) ==
    IF n = 0 THEN R(0)
    ELSE RAdd(invested_value(s, tickers, n - 1), position_value(s.state[tickers[n]]))

\* Mutant: a snapshot is appended only for a timestamp with a trade.
append_equity_if_traded(s, c, now) ==
    LET iv == invested_value(s, c.tickers, Len(c.tickers))
    IN  IF \E i \in 1..Len(s.trades) : s.trades[i].dt = now
        THEN [s EXCEPT !.equity_curve = Append(@,
                [dt |-> now, cash_balance |-> s.cash_balance, portfolio_value |-> iv,
                 deployed_value |-> iv, total_wealth |-> RAdd(s.cash_balance, iv)])]
        ELSE s

append_equity(s, c, now) ==
    LET iv == invested_value(s, c.tickers, Len(c.tickers))
    IN  [s EXCEPT !.equity_curve = Append(@,
            [dt |-> now, cash_balance |-> s.cash_balance, portfolio_value |-> iv,
             deployed_value |-> iv, total_wealth |-> RAdd(s.cash_balance, iv)])]

\* ------------------------------------------------------------------------
\* After the loop: final holdings and the returned frames
\* ------------------------------------------------------------------------
final_row(s, c, ticker) ==
    LET stt == s.state[ticker]
    IN  [ticker |-> ticker,
         buy_unit_usd |-> R(c.buy_unit_by_ticker[ticker]),
         last_price |-> IF stt.last_price # None THEN stt.last_price ELSE R(0),
         ending_shares |-> stt.shares,
         position_value |-> position_value(stt),
         notional_bought |-> stt.notional_bought,
         proceeds_sold |-> stt.proceeds_sold,
         net_flow |-> RSub(stt.proceeds_sold, stt.notional_bought),
         buys |-> stt.buy_count,
         sells |-> stt.sell_count]

final_rows(s, c) == [i \in 1..Len(c.tickers) |-> final_row(s, c, c.tickers[i])]

\* Lexicographic order of the strings that occur as tickers and actions.
StrRank(x) ==
    CASE x = "A" -> 1 [] x = "B" -> 2 [] x = "BUY" -> 3 [] x = "SELL" -> 4

trade_key_le(a, b) ==
    \/ a.dt < b.dt
    \/ a.dt = b.dt /\ StrRank(a.ticker) < StrRank(b.ticker)
    \/ a.dt = b.dt /\ a.ticker = b.ticker /\ StrRank(a.action) <= StrRank(b.action)

\* Stable insertion of x into the sorted sequence q.
RECURSIVE insert_sorted(_, _)
insert_sorted(q, x) ==
    IF q = <<>> THEN <<x>>
    ELSE IF trade_key_le(q[Len(q)], x) THEN Append(q, x)
    ELSE Append(insert_sorted(SubSeq(q, 1, Len(q) - 1), x), q[Len(q)])

sort_trades_skipped(q) == q

RECURSIVE sort_trades(_)
sort_trades(q) ==
    IF q = <<>> THEN <<>>
    ELSE insert_sorted(sort_trades(SubSeq(q, 1, Len(q) - 1)), q[Len(q)])

\* The orders sort_values("position_value", ascending=False) may give the rows:
\* every arrangement that is descending (ties in any order).
final_frames(rows) ==
    {[i \in 1..Len(rows) |-> rows[p[i]]] :
        p \in {q \in [1..Len(rows) -> 1..Len(rows)] :
                 /\ \A i, j \in 1..Len(rows) : i # j => q[i] # q[j]
                 /\ \A i \in 1..Len(rows) - 1 :
                      RLe(rows[q[i + 1]].position_value, rows[q[i]].position_value)}}

Running == [status |-> "running", exc |-> "", trades_df |-> <<>>,
            final_df |-> <<>>, equity_df |-> <<>>]

Raised(e) == [status |-> "raised", exc |-> e, trades_df |-> <<>>,
              final_df |-> <<>>, equity_df |-> <<>>]

\* pd.DataFrame([]) has no column "position_value": sort_values raises KeyError.
returns(s, c) ==
    IF Len(c.tickers) = 0 THEN {Raised("KeyError")}
    ELSE {[status |-> "returned", exc |-> "",
           trades_df |-> sort_trades(s.trades),
           final_df |-> f,
           equity_df |-> s.equity_curve] : f \in final_frames(final_rows(s, c))}

\* ------------------------------------------------------------------------
\* Inputs
\* ------------------------------------------------------------------------
Config(tickers, unit, cash, lev, reentry, fee, mode, bth, bwin, sth, swin, yld, brw) ==
    [tickers |-> tickers,
     buy_unit_by_ticker |-> [i \in {tickers[j] : j \in 1..Len(tickers)} |-> unit],
     starting_cash |-> cash,
     annual_cash_yield_pct |-> yld,
     annual_borrow_rate_pct |-> brw,
     allow_leverage |-> lev,
     buy_threshold_pct |-> bth,
     buy_window_days |-> bwin,
     sell_threshold_pct |-> sth,
     sell_window_days |-> swin,
     sell_mode |-> mode,
     fee_bps |-> fee,
     allow_reentry |-> reentry]

Panel(values, gaps) == [values |-> values, gaps |-> gaps]

SellModes == {"Sell on drop", "Sell on gain"}

\* One ticker, yearly rows, prices 1..3 or missing: every flag, fee and sell mode.
SingleInputs ==
    {<<Config(<<"A">>, 2, 3, l, r, f, m, b, 1, 50, 1, 0, 0),
       Panel([t \in {"A"} |-> {NaN, R(1), R(2), R(3)}], {365})>> :
        l \in BOOLEAN, r \in BOOLEAN, f \in {0, 200, 20000},
        m \in SellModes, b \in {0, 50}}

\* Two tickers sharing the cash, listed in an order that is not alphabetical.
SharedInputs ==
    {<<Config(<<"B", "A">>, 2, 3, l, l, 200, "Sell on drop", b, 1, 50, 1, 0, 0),
       Panel([t \in {"A", "B"} |-> IF t = "A" THEN {NaN, R(1), R(2)}
                                               ELSE {R(1), R(2)}], {365})>> :
        l \in BOOLEAN, b \in {0, 50}}

\* Carry on idle and on borrowed cash; rows a year apart or on the same day.
CarryInputs ==
    {<<Config(<<"A">>, 2, 1, TRUE, TRUE, 0, "Sell on drop", 0, 1, 50, 1, y[1], y[2]),
       Panel([t \in {"A"} |-> {NaN, R(1), R(2)}], {0, 365})>> :
        y \in {<<100, 0>>, <<0, 100>>, <<100, 100>>}}

\* Buy units and starting cash at their edges: unit 0, a unit above the
\* cash (starting_cash=100, unit 1000), negative starting cash.
UnitInputs ==
    {<<Config(<<"A">>, u[1], u[2], l, TRUE, 0, "Sell on drop", 0, 1, 50, 1, 0, 0),
       Panel([t \in {"A"} |-> {NaN, R(1), R(2)}], {365})>> :
        u \in {<<0, 3>>, <<1000, 100>>, <<2, -1>>}, l \in BOOLEAN}

\* Longer and unequal lookback windows, thresholds at and below zero.
WindowInputs ==
    {<<Config(<<"A">>, 2, 3, FALSE, TRUE, 0, "Sell on drop", b, w[1], 50, w[2], 0, 0),
       Panel([t \in {"A"} |-> {NaN, R(1), R(2)}], {365})>> :
        b \in {-100, 50}, w \in {<<2, 1>>, <<1, 2>>}}

\* A sell threshold entered with a minus sign, in both sell modes.
SignedThresholdInputs ==
    {<<Config(<<"A">>, 2, 3, FALSE, TRUE, 200, m, 0, 1, -50, 1, 0, 0),
       Panel([t \in {"A"} |-> {R(1), R(2)}], {365})>> :
        m \in SellModes}

\* Values the caller is expected to rule out: a zero price, windows <= 0,
\* an empty ticker universe.
DegenerateInputs ==
    {<<Config(<<"A">>, 2, 3, FALSE, FALSE, 0, "Sell on drop", b, w[1], 0, w[2], 0, 0),
       Panel([t \in {"A"} |-> {NaN, R(0), R(1), R(2)}], {365})>> :
        b \in {-100, 0}, w \in {<<1, 1>>, <<0, 1>>, <<1, 0>>, <<-1, 1>>, <<-2, 1>>, <<1, -2>>}}
    \cup
    {<<Config(<<>>, 2, 3, FALSE, FALSE, 0, "Sell on drop", 50, 1, 50, 1, 0, 0),
       Panel(<<>>, {365})>>}

Inputs ==
    SingleInputs \cup SharedInputs \cup CarryInputs \cup UnitInputs
        \cup WindowInputs \cup SignedThresholdInputs \cup DegenerateInputs

\* ------------------------------------------------------------------------
\* The run as a state machine
\* ------------------------------------------------------------------------
Start(c, p) ==
    /\ cfg = c
    /\ price_panel = p
    /\ pc = "loop"
    /\ dt = 0
    /\ k = 1
    /\ nrows = 0
    /\ sim = InitialLocals(c)
    /\ ret = Running
    /\ grid = <<>>
    /\ upd = <<>>

Init == \E inp \in Inputs : Start(inp[1], inp[2])

\* for dt, row in price_panel.iterrows(): carry, then the inner loop starts
NextRow ==
    /\ pc = "loop"
    /\ nrows < MaxRows
    /\ \E gap \in price_panel.gaps :
          LET now == IF nrows = 0 THEN 0 ELSE dt + gap
          IN  /\ dt' = now
              /\ sim' = begin_row(sim, cfg, now)
    /\ nrows' = nrows + 1
    /\ k' = 1
    /\ pc' = "tickers"
    /\ UNCHANGED <<cfg, price_panel, upd, ret, grid>>

\* one iteration of "for ticker in tickers"
ProcessTicker ==
    /\ pc = "tickers"
    /\ k <= Len(cfg.tickers)
    /\ \E px \in price_panel.values[cfg.tickers[k]] :
          LET s == process_ticker(sim, cfg, cfg.tickers[k], dt, px)
          IN  /\ sim' = s
              /\ IF s.exc # ""
                 THEN /\ pc' = "done"
                      /\ ret' = Raised(s.exc)
                      /\ k' = k
                 ELSE /\ pc' = "tickers"
                      /\ ret' = ret
                      /\ k' = k + 1
    /\ UNCHANGED <<cfg, price_panel, upd, dt, nrows, grid>>

\* after the inner loop: the equity snapshot of this timestamp
AppendEquity ==
    /\ pc = "tickers"
    /\ k > Len(cfg.tickers)
    /\ sim' = append_equity(sim, cfg, dt)
    /\ pc' = "loop"
    /\ UNCHANGED <<cfg, price_panel, upd, dt, k, nrows, ret, grid>>

\* the panel is exhausted: final holdings, sorting, return
Return ==
    /\ pc = "loop"
    /\ ret' \in returns(sim, cfg)
    /\ pc' = "done"
    /\ UNCHANGED <<cfg, price_panel, upd, dt, k, nrows, sim, grid>>

Next == NextRow \/ ProcessTicker \/ AppendEquity \/ Return

Spec == Init /\ [][Next]_vars

\* ------------------------------------------------------------------------
\* run_threshold_simulation as a function of an explicit panel: a sequence of
\* rows [dt |-> days, px |-> [ticker |-> price or NaN]]
\* ------------------------------------------------------------------------
RECURSIVE run_tickers(_, _, _, _)
run_tickers(s, c, row, j) ==
    IF j > Len(c.tickers) \/ s.exc # "" THEN s
    ELSE run_tickers(process_ticker(s, c, c.tickers[j], row.dt, row.px[c.tickers[j]]),
                     c, row, j + 1)

run_row(s, c, row) ==
    LET s1 == run_tickers(begin_row(s, c, row.dt), c, row, 1)
    IN  IF s1.exc # "" THEN s1 ELSE append_equity(s1, c, row.dt)

RECURSIVE run_rows(_, _, _, _)
run_rows(s, c, panel, i) ==
    IF i > Len(panel) \/ s.exc # "" THEN s
    ELSE run_rows(run_row(s, c, panel[i]), c, panel, i + 1)

run_threshold_simulation(panel, c) ==
    LET s == run_rows(InitialLocals(c), c, panel, 1)
    IN  IF s.exc # "" THEN Raised(s.exc)
        ELSE CHOOSE r \in returns(s, c) : TRUE

\* ------------------------------------------------------------------------
\* run_grid_search
\* ------------------------------------------------------------------------
NegInf == <<-1, 0>>

\* itertools.product of five sequences, the last varying fastest
product(a, b, c, d, e) ==
    [n \in 1..(Len(a) * Len(b) * Len(c) * Len(d) * Len(e)) |->
        LET m == n - 1
        IN  <<a[(m \div (Len(b) * Len(c) * Len(d) * Len(e))) + 1],
              b[((m \div (Len(c) * Len(d) * Len(e))) % Len(b)) + 1],
              c[((m \div (Len(d) * Len(e))) % Len(c)) + 1],
              d[((m \div Len(e)) % Len(d)) + 1],
              e[(m % Len(e)) + 1]>>]

deploy_vals_unswept(g) == <<None>>

\* [None] if not deployment_values else [float(v) ...]; None and the empty
\* sequence are both <<>>, a value v is carried as <<v>>
deploy_vals(g) ==
    IF g.deployment_values = <<>> THEN <<None>>
    ELSE [i \in 1..Len(g.deployment_values) |-> <<g.deployment_values[i]>>]

combos(g) ==
    product(g.buy_threshold_values, g.buy_window_values,
            g.sell_threshold_values, g.sell_window_values, deploy_vals(g))

\* Mutant: the deployment value is not applied to the buy units.
combo_config_keeps_units(c, combo) ==
    [c EXCEPT
       !.buy_threshold_pct = combo[1],
       !.buy_window_days = combo[2],
       !.sell_threshold_pct = combo[3],
       !.sell_window_days = combo[4]]

\* the arguments of the simulation run for one combination
combo_config(c, combo) ==
    [c EXCEPT
       !.buy_unit_by_ticker =
           IF combo[5] = None THEN @ ELSE [t \in DOMAIN @ |-> combo[5][1]],
       !.buy_threshold_pct = combo[1],
       !.buy_window_days = combo[2],
       !.sell_threshold_pct = combo[3],
       !.sell_window_days = combo[4]]

\* min over time of (eq / eq.cummax()) - 1, NaN skipped; None stands for NaN
RECURSIVE drawdown_min(_, _, _, _)
drawdown_min(eq, i, running_max, low) ==
    IF i > Len(eq) THEN low
    ELSE LET x == eq[i].total_wealth
             rm == IF running_max = None THEN x ELSE RMax(running_max, x)
             dd == IF rm[1] # 0 THEN RSub(RDiv(x, rm), R(1))
                   ELSE IF x[1] = 0 THEN None ELSE NegInf
             lo == IF dd = None THEN low
                   ELSE IF low = None THEN dd
                   ELSE IF RLt(dd, low) THEN dd ELSE low
         IN  drawdown_min(eq, i + 1, rm, lo)

max_drawdown_pct(equity_df) ==
    IF equity_df = <<>> THEN None
    ELSE LET m == drawdown_min(equity_df, 1, None, None)
         IN  IF m = None \/ m = NegInf THEN m ELSE RMul(m, R(100))

grid_row(c, combo, r) ==
    LET empty == r.equity_df = <<>>
        final_total == IF empty THEN R(c.starting_cash)
                       ELSE Last(r.equity_df).total_wealth
        pnl == RSub(final_total, R(c.starting_cash))
    IN  [buy_threshold_pct |-> combo[1],
         buy_window_days |-> combo[2],
         sell_threshold_pct |-> combo[3],
         sell_window_days |-> combo[4],
         deployment_per_trade_usd |-> combo[5],
         starting_cash |-> R(c.starting_cash),
         final_cash |-> IF empty THEN R(c.starting_cash)
                        ELSE Last(r.equity_df).cash_balance,
         final_invested |-> IF empty THEN R(0)
                            ELSE Last(r.equity_df).portfolio_value,
         final_total_wealth |-> final_total,
         pnl |-> pnl,
         total_return_pct |-> IF c.starting_cash > 0
                              THEN RMul(RDiv(pnl, R(c.starting_cash)), R(100))
                              ELSE None,
         max_drawdown_pct |-> max_drawdown_pct(r.equity_df),
         trade_count |-> Len(r.trades_df)]

rank_before_ascending(a, b) ==
    \/ RLt(a.final_total_wealth, b.final_total_wealth)
    \/ /\ a.final_total_wealth = b.final_total_wealth
       /\ a.trade_count < b.trade_count

\* sort_values([final_total_wealth, max_drawdown_pct, trade_count],
\*             ascending=False, na_position="last"): does row a go before row b?
rank_before(a, b) ==
    \/ RLt(b.final_total_wealth, a.final_total_wealth)
    \/ /\ a.final_total_wealth = b.final_total_wealth
       /\ \/ a.max_drawdown_pct # None /\ b.max_drawdown_pct = None
          \/ /\ a.max_drawdown_pct # None /\ b.max_drawdown_pct # None
             /\ RLt(b.max_drawdown_pct, a.max_drawdown_pct)
          \/ /\ a.max_drawdown_pct = b.max_drawdown_pct
             /\ a.trade_count > b.trade_count

\* Stable insertion of x into the ranked sequence q.
insert_ranked(q, x) ==
    LET stay == {i \in 1..Len(q) : ~rank_before(x, q[i])}
        at == IF stay = {} THEN 0 ELSE CHOOSE i \in stay : \A j \in stay : j <= i
    IN  SubSeq(q, 1, at) \o <<x>> \o SubSeq(q, at + 1, Len(q))

RECURSIVE sort_rows(_)
sort_rows(q) ==
    IF q = <<>> THEN <<>>
    ELSE insert_ranked(sort_rows(SubSeq(q, 1, Len(q) - 1)), q[Len(q)])

\* ------------------------------------------------------------------------
\* run_grid_search as a state machine: one step per combination
\* ------------------------------------------------------------------------
\* All panels of at most n rows for one ticker, rows a year apart.
RECURSIVE Panels(_, _, _)
Panels(t, values, n) ==
    IF n = 0 THEN {<<>>}
    ELSE LET shorter == Panels(t, values, n - 1)
         IN  shorter \cup
             {Append(q, [dt |-> Len(q) * 365, px |-> [u \in {t} |-> v]]) :
                 q \in {x \in shorter : Len(x) = n - 1}, v \in values}

\* a sweep of two levers at most, with and without a deployment sweep
SmallLevers ==
    {[buy_threshold_values |-> bt, buy_window_values |-> bw,
      sell_threshold_values |-> <<50>>, sell_window_values |-> <<1>>,
      deployment_values |-> dv, progress_callback |-> cb] :
        bt \in {<<0>>, <<0, 50>>},
        bw \in {<<1>>, <<2, 1>>, <<1, -2>>},
        dv \in {None, <<1, 2>>},
        cb \in BOOLEAN}

\* the 3x3x3x3 sweep without a deployment sweep
WideLevers ==
    {[buy_threshold_values |-> <<0, 50, 100>>, buy_window_values |-> <<1, 2, 3>>,
      sell_threshold_values |-> <<0, 25, 50>>, sell_window_values |-> <<1, 2, 3>>,
      deployment_values |-> None, progress_callback |-> TRUE]}

GridLevers == SmallLevers \cup WideLevers

GridConfigs ==
    {Config(<<"A">>, 2, cash, FALSE, TRUE, 0, "Sell on drop", 0, 1, 0, 1, 0, 0) :
        cash \in {3, -1}}
    \cup {Config(<<"A">>, 2, 0, TRUE, TRUE, 0, "Sell on drop", 0, 1, 0, 1, 0, 0)}

\* panels with missing prices, and one row longer without them
GridPanels ==
    Panels("A", {NaN, R(1), R(2)}, MaxGridRows)
    \cup Panels("A", {R(1), R(2)}, MaxGridRows + 1)

InitGrid ==
    /\ cfg \in GridConfigs
    /\ price_panel \in GridPanels
    /\ \E g \in GridLevers :
          grid = [args |-> g, combos |-> combos(g), idx |-> 0, rows |-> <<>>,
                  calls |-> <<>>]
    /\ pc = "grid"
    /\ dt = 0
    /\ k = 1
    /\ nrows = 0
    /\ sim = <<>>
    /\ upd = <<>>
    /\ ret = Running

progress_zero_based(calls, progress_callback, idx, total) ==
    IF progress_callback THEN Append(calls, <<idx - 1, total>>) ELSE calls

\* "if progress_callback: progress_callback(idx, total)": the calls made so far
progress(calls, progress_callback, idx, total) ==
    IF progress_callback THEN Append(calls, <<idx, total>>) ELSE calls

\* one iteration of "for idx, (...) in enumerate(combos, start=1)"
GridCombination ==
    /\ pc = "grid"
    /\ grid.idx < Len(grid.combos)
    /\ LET idx == grid.idx + 1
           combo == grid.combos[idx]
           r == run_threshold_simulation(price_panel, combo_config(cfg, combo))
       IN  IF r.status = "raised"
           THEN /\ ret' = Raised(r.exc)
                /\ pc' = "done"
                /\ grid' = [grid EXCEPT !.idx = idx]
           ELSE /\ grid' = [grid EXCEPT
                              !.idx = idx,
                              !.rows = Append(@, grid_row(cfg, combo, r)),
                              !.calls = progress(@, grid.args.progress_callback,
                                                 idx, Len(grid.combos))]
                /\ UNCHANGED <<pc, ret>>
    /\ UNCHANGED <<cfg, price_panel, upd, dt, k, nrows, sim>>

\* after the loop: the ranking sort and the return
GridReturn ==
    /\ pc = "grid"
    /\ grid.idx = Len(grid.combos)
    /\ ret' = [status |-> "returned", exc |-> "", out |-> sort_rows(grid.rows)]
    /\ pc' = "done"
    /\ UNCHANGED <<cfg, price_panel, upd, dt, k, nrows, sim, grid>>

NextGrid == GridCombination \/ GridReturn

SpecGrid == InitGrid /\ [][NextGrid]_vars

\* ------------------------------------------------------------------------
\* build_float_grid and build_int_grid
\* ------------------------------------------------------------------------
\* "guard < 5000"
GuardLimit == 5000
\* the 1e-9 of "x <= float(end) + 1e-9", as 1 / ToleranceScale
ToleranceScale == 1000000000
\* the 6 of "round(x, 6)", as steps of 1 / RoundScale
RoundScale == 1000000

float_step_degenerate_strict(step) == RLt(step, R(0))

\* "if step <= 0" of build_float_grid
float_step_degenerate(step) == RLe(step, R(0))

\* "if step <= 0" of build_int_grid
int_step_degenerate(step) == step <= 0

\* x <= float(end) + 1e-9
within_end(x, end) ==
    \/ RLe(x, end)
    \/ LET over == RSub(x, end)
       IN  over[1] <= over[2] \div ToleranceScale

\* round(x, 6): the nearest multiple of 1e-6, a tie going to the even one
round6(x) ==
    LET whole == x[1] \div x[2]
        r == x[1] - whole * x[2]
        d == x[2]
        up == IF RoundScale % d = 0 THEN r * (RoundScale \div d)
              ELSE (2 * r * RoundScale + d) \div (2 * d)
        tie == RoundScale % d # 0 /\ (2 * r * RoundScale + d) % (2 * d) = 0
        m == IF tie /\ up % 2 = 1 THEN up - 1 ELSE up
    IN  IF m = 0 THEN R(whole) ELSE Norm(whole * RoundScale + m, RoundScale)

\* list(range(start, stop, step)) for step > 0
range(start, stop, step) ==
    IF stop <= start THEN <<>>
    ELSE [i \in 1..(((stop - start - 1) \div step) + 1) |-> start + (i - 1) * step]

build_int_grid_exclusive(start, end, step) ==
    IF int_step_degenerate(step) THEN <<start>>
    ELSE range(start, end, step)

build_int_grid(start, end, step) ==
    IF int_step_degenerate(step) THEN <<start>>
    ELSE range(start, end + 1, step)

\* what a builder returns
Built(vals) == [status |-> "returned", exc |-> "", out |-> vals]

Points == -1..MaxPoint

IntGridInputs ==
    {[fn |-> "build_int_grid", start |-> a, end |-> b, step |-> s] :
        a \in Points, b \in Points, s \in -1..3}
    \cup {[fn |-> "build_int_grid", start |-> 0, end |-> GuardLimit + 1, step |-> 1]}

FloatGridInputs ==
    {[fn |-> "build_float_grid", start |-> a, end |-> b, step |-> s] :
        a \in {R(i) : i \in Points} \cup {<<1, 2>>},
        b \in {R(i) : i \in Points} \cup {<<1, 2>>},
        s \in {R(-1), R(0), <<1, 4>>, <<1, 3>>, R(1)}}
    \cup {[fn |-> "build_float_grid", start |-> R(0), end |-> R(1),
           step |-> <<1, 2 * GuardLimit>>]}

InitBuilders ==
    /\ \/ \E a \in IntGridInputs :
             grid = [args |-> a, x |-> None, guard |-> 0, vals |-> <<>>]
       \/ \E a \in FloatGridInputs :
             grid = [args |-> a, x |-> None, guard |-> 0, vals |-> <<>>]
    /\ pc = "call"
    /\ cfg = <<>>
    /\ price_panel = <<>>
    /\ dt = 0
    /\ k = 1
    /\ nrows = 0
    /\ sim = <<>>
    /\ upd = <<>>
    /\ ret = Running

BuildIntGrid ==
    /\ pc = "call"
    /\ grid.args.fn = "build_int_grid"
    /\ ret' = Built(build_int_grid(grid.args.start, grid.args.end, grid.args.step))
    /\ pc' = "done"
    /\ UNCHANGED <<cfg, price_panel, upd, dt, k, nrows, sim, grid>>

\* build_float_grid up to the loop
BuildFloatGrid ==
    /\ pc = "call"
    /\ grid.args.fn = "build_float_grid"
    /\ IF float_step_degenerate(grid.args.step)
       THEN /\ ret' = Built(<<grid.args.start>>)
            /\ pc' = "done"
            /\ UNCHANGED grid
       ELSE /\ grid' = [grid EXCEPT !.x = grid.args.start, !.guard = 0,
                                    !.vals = <<>>]
            /\ pc' = "while"
            /\ UNCHANGED ret
    /\ UNCHANGED <<cfg, price_panel, upd, dt, k, nrows, sim>>

\* one test of "while x <= float(end) + 1e-9 and guard < 5000", then the body
\* or the return
FloatGridLoop ==
    /\ pc = "while"
    /\ IF within_end(grid.x, grid.args.end) /\ grid.guard < GuardLimit
       THEN /\ grid' = [grid EXCEPT !.vals = Append(@, round6(grid.x)),
                                    !.x = RAdd(@, grid.args.step),
                                    !.guard = @ + 1]
            /\ UNCHANGED <<pc, ret>>
       ELSE /\ ret' = Built(grid.vals)
            /\ pc' = "done"
            /\ UNCHANGED grid
    /\ UNCHANGED <<cfg, price_panel, upd, dt, k, nrows, sim>>

NextBuilders == BuildIntGrid \/ BuildFloatGrid \/ FloatGridLoop

SpecBuilders == InitBuilders /\ [][NextBuilders]_vars

\* ------------------------------------------------------------------------
\* updater: download_ohlcv
\* ------------------------------------------------------------------------
max_attempts_no_floor(retries) == retries + 1

\* max(1, int(retries) + 1)
max_attempts(retries) == IF retries + 1 > 1 THEN retries + 1 ELSE 1

should_wait_always(attempt, limit) == attempt <= limit

\* "if attempt < max_attempts" before the sleep
should_wait(attempt, limit) == attempt < limit

\* wait_s = max(0.5, float(retry_backoff_s)) * attempt
wait_s(retry_backoff_s, attempt) ==
    RMul(RMax(<<1, 2>>, retry_backoff_s), R(attempt))

\* what download_ohlcv returns: the frame of the attempt that succeeded
Downloaded(attempt) ==
    [status |-> "returned", exc |-> "", out |-> <<"df", attempt>>]

DownloadFailed(e) == [status |-> "raised", exc |-> e, out |-> <<>>]

DownloadArgs ==
    {[retries |-> r, retry_backoff_s |-> b, start_or_period |-> g] :
        r \in -2..MaxRetries, b \in {R(0), R(1), R(2)}, g \in BOOLEAN}

InitDownload ==
    /\ \E a \in DownloadArgs :
          upd = [args |-> a, attempt |-> 0, outcomes |-> <<>>, sleeps |-> <<>>]
    /\ pc = "call"
    /\ cfg = <<>>
    /\ price_panel = <<>>
    /\ dt = 0
    /\ k = 1
    /\ nrows = 0
    /\ sim = <<>>
    /\ grid = <<>>
    /\ ret = Running

\* up to the loop: the argument check, max_attempts
DownloadCall ==
    /\ pc = "call"
    /\ IF ~upd.args.start_or_period
       THEN /\ ret' = DownloadFailed("ValueError")
            /\ pc' = "done"
            /\ UNCHANGED upd
       ELSE /\ upd' = [upd EXCEPT !.attempt = 1]
            /\ pc' = "attempt"
            /\ UNCHANGED ret
    /\ UNCHANGED <<cfg, price_panel, dt, k, nrows, sim, grid>>

\* one iteration of "for attempt in range(1, max_attempts + 1)": yf.download
\* returns or raises; after a failure the sleep, unless it was the last
DownloadAttempt ==
    /\ pc = "attempt"
    /\ upd.attempt <= max_attempts(upd.args.retries)
    /\ \E outcome \in {"ok", "raise"} :
          IF outcome = "ok"
          THEN /\ upd' = [upd EXCEPT !.outcomes = Append(@, outcome)]
               /\ ret' = Downloaded(upd.attempt)
               /\ pc' = "done"
          ELSE /\ upd' = [upd EXCEPT
                            !.outcomes = Append(@, outcome),
                            !.sleeps =
                                IF should_wait(upd.attempt,
                                               max_attempts(upd.args.retries))
                                THEN Append(@, wait_s(upd.args.retry_backoff_s,
                                                      upd.attempt))
                                ELSE @,
                            !.attempt = @ + 1]
               /\ UNCHANGED <<pc, ret>>
    /\ UNCHANGED <<cfg, price_panel, dt, k, nrows, sim, grid>>

\* after the loop: raise RuntimeError(...) from last_exc
DownloadExhausted ==
    /\ pc = "attempt"
    /\ upd.attempt > max_attempts(upd.args.retries)
    /\ ret' = DownloadFailed("RuntimeError")
    /\ pc' = "done"
    /\ UNCHANGED <<cfg, price_panel, dt, k, nrows, sim, grid, upd>>

NextDownload == DownloadCall \/ DownloadAttempt \/ DownloadExhausted

SpecDownload == InitDownload /\ [][NextDownload]_vars

\* ------------------------------------------------------------------------
\* updater: main
\* ------------------------------------------------------------------------
\* a row of prices_1d or prices_1m is named by its table and the ticker whose
\* upsert wrote it; owner 0 stands for the rows of earlier runs
Row(table, owner) == <<table, owner>>

StoredBefore == {Row("prices_1d", 0), Row("prices_1m", 0)}

\* the connection: what is committed, and what the open transaction sees
Connection(rows) == [committed |-> rows, working |-> rows]

rollback_keeps_writes(conn) == conn

\* conn.rollback()
rollback(conn) == [conn EXCEPT !.working = conn.committed]

\* conn.commit()
commit(conn) == [conn EXCEPT !.committed = conn.working]

\* upsert_1d: nothing for an empty frame, else the INSERT ... ON CONFLICT
upsert_1d(conn, t, df) ==
    IF df = "empty" THEN conn
    ELSE [conn EXCEPT !.working = @ \cup {Row("prices_1d", t)}]

\* upsert_1m: the same on prices_1m
upsert_1m(conn, t, df) ==
    IF df = "empty" THEN conn
    ELSE [conn EXCEPT !.working = @ \cup {Row("prices_1m", t)}]

\* TRUNCATE TABLE prices_1m
truncate_1m(conn) ==
    [conn EXCEPT !.working = {r \in @ : r[1] # "prices_1m"}]

\* DELETE FROM prices_1m WHERE ts < cutoff: stale is the rows older than it
cleanup_1m(conn, stale) == [conn EXCEPT !.working = @ \ stale]

MainReturned(code) == [status |-> "returned", exc |-> "", out |-> code]

MainRaised(e) == [status |-> "raised", exc |-> e, out |-> <<>>]

\* the positions inside the body of "for idx, t in enumerate(tickers, 1)"
TickerSteps ==
    {"download_1d", "upsert_1d", "download_1m", "upsert_1m", "commit"}

\* where main goes once the body of the loop is left for ticker idx
after_ticker(u) ==
    IF u.idx < u.tickers THEN "download_1d"
    ELSE IF u.intraday_enabled /\ ~u.intraday_truncate_before_load
         THEN "cleanup"
         ELSE "return"

\* "except Exception" of the loop: rollback, failed_tickers.append(t)
ticker_failed(u) ==
    [u EXCEPT !.conn = rollback(@),
              !.failed_tickers = Append(@, u.idx),
              !.df = "",
              !.idx = IF u.idx < u.tickers THEN @ + 1 ELSE @]

MainArgs ==
    {[tickers |-> n, intraday_enabled |-> i,
      intraday_truncate_before_load |-> b] :
        n \in 0..MaxTickers, i \in BOOLEAN, b \in BOOLEAN}

InitMain ==
    /\ \E a \in MainArgs :
          upd = [tickers |-> a.tickers,
                 intraday_enabled |-> a.intraday_enabled,
                 intraday_truncate_before_load |->
                     a.intraday_truncate_before_load,
                 conn |-> Connection(StoredBefore),
                 idx |-> 0, df |-> "", success_count |-> 0,
                 failed_tickers |-> <<>>, failed_step |-> ""]
    /\ pc = "main"
    /\ cfg = <<>>
    /\ price_panel = <<>>
    /\ dt = 0
    /\ k = 1
    /\ nrows = 0
    /\ sim = <<>>
    /\ grid = <<>>
    /\ ret = Running

\* up to the truncate: "if not tickers: raise RuntimeError", the session
MainCall ==
    /\ pc = "main"
    /\ IF upd.tickers = 0
       THEN /\ ret' = MainRaised("RuntimeError")
            /\ pc' = "done"
            /\ UNCHANGED upd
       ELSE /\ IF upd.intraday_enabled /\ upd.intraday_truncate_before_load
               THEN /\ pc' = "truncate"
                    /\ UNCHANGED upd
               ELSE /\ pc' = "download_1d"
                    /\ upd' = [upd EXCEPT !.idx = 1]
            /\ UNCHANGED ret
    /\ UNCHANGED <<cfg, price_panel, dt, k, nrows, sim, grid>>

\* truncate_1m and its commit; on an exception rollback and "return 1"
MainTruncate ==
    /\ pc = "truncate"
    /\ \E outcome \in {"ok", "raise"} :
          IF outcome = "ok"
          THEN /\ upd' = [upd EXCEPT !.conn = commit(truncate_1m(@)),
                                     !.idx = 1]
               /\ pc' = "download_1d"
               /\ UNCHANGED ret
          ELSE /\ \E reached \in BOOLEAN :
                     upd' = [upd EXCEPT
                               !.conn = commit(rollback(
                                   IF reached THEN truncate_1m(@) ELSE @)),
                               !.failed_step = "truncate"]
               /\ ret' = MainReturned(1)
               /\ pc' = "done"
    /\ UNCHANGED <<cfg, price_panel, dt, k, nrows, sim, grid>>

\* download_ohlcv(t, interval="1d") and normalize_ohlcv
MainDownload1d ==
    /\ pc = "download_1d"
    /\ \E outcome \in {"rows", "empty", "raise"} :
          IF outcome = "raise"
          THEN /\ upd' = ticker_failed(upd)
               /\ pc' = after_ticker(upd)
          ELSE /\ upd' = [upd EXCEPT !.df = outcome]
               /\ pc' = "upsert_1d"
    /\ UNCHANGED <<cfg, price_panel, dt, k, nrows, sim, grid, ret>>

\* upsert_1d(conn, t, df1d)
MainUpsert1d ==
    /\ pc = "upsert_1d"
    /\ \E outcome \in {"ok", "raise"} :
          IF outcome = "raise"
          THEN /\ upd' = ticker_failed(upd)
               /\ pc' = after_ticker(upd)
          ELSE /\ upd' = [upd EXCEPT !.conn = upsert_1d(@, upd.idx, upd.df),
                                     !.df = ""]
               /\ pc' = IF upd.intraday_enabled THEN "download_1m"
                        ELSE "commit"
    /\ UNCHANGED <<cfg, price_panel, dt, k, nrows, sim, grid, ret>>

\* download_ohlcv(t, interval="1m") and normalize_ohlcv
MainDownload1m ==
    /\ pc = "download_1m"
    /\ \E outcome \in {"rows", "empty", "raise"} :
          IF outcome = "raise"
          THEN /\ upd' = ticker_failed(upd)
               /\ pc' = after_ticker(upd)
          ELSE /\ upd' = [upd EXCEPT !.df = outcome]
               /\ pc' = "upsert_1m"
    /\ UNCHANGED <<cfg, price_panel, dt, k, nrows, sim, grid, ret>>

\* upsert_1m(conn, t, df1m)
MainUpsert1m ==
    /\ pc = "upsert_1m"
    /\ \E outcome \in {"ok", "raise"} :
          IF outcome = "raise"
          THEN /\ upd' = ticker_failed(upd)
               /\ pc' = after_ticker(upd)
          ELSE /\ upd' = [upd EXCEPT !.conn = upsert_1m(@, upd.idx, upd.df),
                                     !.df = ""]
               /\ pc' = "commit"
    /\ UNCHANGED <<cfg, price_panel, dt, k, nrows, sim, grid, ret>>

\* conn.commit(); success_count += 1
MainCommit ==
    /\ pc = "commit"
    /\ \E outcome \in {"ok", "raise"} :
          IF outcome = "raise"
          THEN upd' = ticker_failed(upd)
          ELSE upd' = [upd EXCEPT !.conn = commit(@),
                                  !.success_count = @ + 1,
                                  !.idx = IF upd.idx < upd.tickers
                                          THEN @ + 1 ELSE @]
    /\ pc' = after_ticker(upd)
    /\ UNCHANGED <<cfg, price_panel, dt, k, nrows, sim, grid, ret>>

\* cleanup_1m and its commit; on an exception rollback and "return 1"
MainCleanup ==
    /\ pc = "cleanup"
    /\ \E stale \in SUBSET {r \in upd.conn.working : r[1] = "prices_1m"} :
       \E outcome \in {"ok", "raise"} :
          IF outcome = "ok"
          THEN /\ upd' = [upd EXCEPT !.conn = commit(cleanup_1m(@, stale))]
               /\ pc' = "return"
               /\ UNCHANGED ret
          ELSE /\ upd' = [upd EXCEPT
                            !.conn = commit(rollback(cleanup_1m(@, stale))),
                            !.failed_step = "cleanup"]
               /\ ret' = MainReturned(1)
               /\ pc' = "done"
    /\ UNCHANGED <<cfg, price_panel, dt, k, nrows, sim, grid>>

\* the end of the "with" block and "return 1 if success_count == 0 else 0"
MainReturn ==
    /\ pc = "return"
    /\ upd' = [upd EXCEPT !.conn = commit(@)]
    /\ ret' = MainReturned(IF upd.success_count = 0 THEN 1 ELSE 0)
    /\ pc' = "done"
    /\ UNCHANGED <<cfg, price_panel, dt, k, nrows, sim, grid>>

NextMain ==
    \/ MainCall
    \/ MainTruncate
    \/ MainDownload1d
    \/ MainUpsert1d
    \/ MainDownload1m
    \/ MainUpsert1m
    \/ MainCommit
    \/ MainCleanup
    \/ MainReturn

SpecMain == InitMain /\ [][NextMain]_vars

\* ------------------------------------------------------------------------
\* Properties of run_threshold_simulation
\* ------------------------------------------------------------------------
Buys(t) == {i \in 1..Len(sim.trades) :
              sim.trades[i].ticker = t /\ sim.trades[i].action = "BUY"}
Sells(t) == {i \in 1..Len(sim.trades) :
              sim.trades[i].ticker = t /\ sim.trades[i].action = "SELL"}

\* The buy signal as it stands on a ticker's observations so far.
SignalNow(t) ==
    LET b == trailing_return(sim.state[t].history, cfg.buy_window_days)
    IN  b.exc = "" /\ buy_signal(cfg, b.val)

\* Sum over a set of tickers of shares x last observed price (0 when none).
RECURSIVE HoldingsValue(_, _)
HoldingsValue(st, T) ==
    IF T = {} THEN R(0)
    ELSE LET t == CHOOSE x \in T : TRUE
             px == IF st[t].last_price = None THEN R(0) ELSE st[t].last_price
         IN  RAdd(RMul(st[t].shares, px), HoldingsValue(st, T \ {t}))

\* C1: the snapshot just appended for a timestamp records the cash balance and
\* total_wealth = cash_balance + sum over all tickers of shares x last observed
\* price (0 for a ticker not yet observed); one snapshot per timestamp.
C1_SnapshotIsCashPlusHoldings ==
    (pc = "loop" /\ nrows > 0) =>
        /\ Len(sim.equity_curve) = nrows
        /\ Last(sim.equity_curve).dt = dt
        /\ Last(sim.equity_curve).cash_balance = sim.cash_balance
        /\ Last(sim.equity_curve).total_wealth =
              RAdd(sim.cash_balance, HoldingsValue(sim.state, TickerSet(cfg)))

C1_Witness ==
    /\ pc = "loop"
    /\ nrows >= 3
    /\ Len(sim.trades) >= 1
    /\ \E t \in TickerSet(cfg) : RLt(R(0), sim.state[t].shares)
    /\ \E t \in TickerSet(cfg) : sim.state[t].last_price = None

\* C2: without leverage the cash balance is never negative.
C2_NoLeverageCashNonNegative ==
    (~cfg.allow_leverage) => RLe(R(0), sim.cash_balance)

C4_SellLiquidatesBuyAdds ==
    [][Len(sim'.trades) = Len(sim.trades) + 1 =>
          LET tr == Last(sim'.trades)
              before == sim.state[tr.ticker].shares
              after == sim'.state[tr.ticker].shares
          IN  /\ tr.shares_after = after
              /\ tr.action = "SELL" =>
                    after = R(0) /\ tr.shares = before /\ RLt(R(0), before)
              /\ tr.action = "BUY" =>
                    RLe(before, after) /\ after = RAdd(before, tr.shares)]_vars

C4_Witness ==
    \E i, j, l \in 1..Len(sim.trades) :
        /\ i < j /\ j < l
        /\ sim.trades[i].action = "BUY" /\ sim.trades[j].action = "BUY"
        /\ sim.trades[l].action = "SELL"
        /\ sim.trades[i].ticker = sim.trades[l].ticker
        /\ sim.trades[j].ticker = sim.trades[l].ticker
        /\ sim.trades[l].shares = sim.trades[j].shares_after

\* C5: no ticker ever holds a negative number of shares.
C5_SharesNonNegative ==
    \A t \in TickerSet(cfg) : RLe(R(0), sim.state[t].shares)

C5_Witness ==
    \E t \in TickerSet(cfg) :
        /\ sim.state[t].shares = R(0)
        /\ sim.state[t].sell_count >= 1
        /\ cfg.fee_bps > 0

\* C6: a buy attempt with a buy unit <= 0, or without leverage and with cash
\* below the unit, changes nothing: no exception, no trade, cash, shares, buy
\* count and notional bought as before.
BuyAttempted(t) ==
    LET hist == sim'.state[t].history
        b == trailing_return(hist, cfg.buy_window_days)
        sl == trailing_return(hist, cfg.sell_window_days)
        stt == sim.state[t]
    IN  /\ Len(hist) = Len(stt.history) + 1
        /\ b.exc = "" /\ sl.exc = ""
        /\ b.val # None /\ RLe(R(cfg.buy_threshold_pct), b.val)
        /\ IF RLe(stt.shares, R(0))
           THEN cfg.allow_reentry \/ stt.buy_count = 0
           ELSE ~sell_signal(cfg, sl.val)

C6_SkippedBuyIsNoOp ==
    [][(/\ pc = "tickers" /\ k <= Len(cfg.tickers)
        /\ BuyAttempted(cfg.tickers[k])
        /\ \/ cfg.buy_unit_by_ticker[cfg.tickers[k]] <= 0
           \/ ~cfg.allow_leverage
              /\ RLt(sim.cash_balance, R(cfg.buy_unit_by_ticker[cfg.tickers[k]])))
       => LET t == cfg.tickers[k]
          IN  /\ sim'.exc = "" /\ ret' = ret
              /\ sim'.trades = sim.trades
              /\ sim'.cash_balance = sim.cash_balance
              /\ sim'.state[t].shares = sim.state[t].shares
              /\ sim'.state[t].buy_count = sim.state[t].buy_count
              /\ sim'.state[t].notional_bought = sim.state[t].notional_bought]_vars

\* Scenario C: starting_cash=100, unit 1000, no leverage; the signal fired and
\* cash is still 100.
C6_Witness ==
    /\ cfg.starting_cash = 100 /\ ~cfg.allow_leverage
    /\ pc = "loop" /\ nrows >= 2
    /\ \E t \in TickerSet(cfg) :
          /\ cfg.buy_unit_by_ticker[t] = 1000
          /\ SignalNow(t)
          /\ sim.state[t].buy_count = 0
    /\ sim.cash_balance = R(100)
    /\ sim.trades = <<>>

\* C7: a zero price N observations back leaves the signal undefined: the run
\* raises nothing (and so trades nothing on that signal).
ZeroLookback(t, window) ==
    LET hist == sim.state[t].history
        j == PyIndex(Len(hist), -1 - window)
    IN  Len(hist) > window /\ j # 0 /\ hist[j] = R(0)

C7_ZeroLookbackRaisesNothing ==
    \A t \in TickerSet(cfg) :
        (ZeroLookback(t, cfg.buy_window_days) \/ ZeroLookback(t, cfg.sell_window_days))
            => sim.exc = ""

\* C8: with a window <= 0 the run does not crash and the signal of that window
\* is undefined at every step: it triggers no BUY (buy window) or SELL (sell
\* window).
C8_NonPositiveWindowIsUndefined ==
    /\ (cfg.buy_window_days <= 0 \/ cfg.sell_window_days <= 0) => sim.exc = ""
    /\ cfg.buy_window_days <= 0 => \A t \in TickerSet(cfg) : Buys(t) = {}
    /\ cfg.sell_window_days <= 0 => \A t \in TickerSet(cfg) : Sells(t) = {}

\* C9: with an empty panel or an empty ticker universe the call returns, and
\* returns no trades, no holdings rows and no equity snapshots.
C9_EmptyInputsReturnEmptyOutputs ==
    (pc = "done" /\ (nrows = 0 \/ cfg.tickers = <<>>)) =>
        /\ ret.status = "returned"
        /\ ret.trades_df = <<>>
        /\ ret.final_df = <<>>
        /\ ret.equity_df = <<>>

\* ------------------------------------------------------------------------
\* Properties of run_grid_search
\* ------------------------------------------------------------------------
\* C10: the sweep never aborts: it returns one row per combination, whatever
\* a single combination's simulation does.
C10_SweepReturnsRowPerCombination ==
    pc = "done" =>
        /\ ret.status = "returned"
        /\ Len(ret.out) = Len(grid.combos)

Range(q) == {q[i] : i \in DOMAIN q}

\* the lever values a result row was produced from
LeverTuple(x) ==
    <<x.buy_threshold_pct, x.buy_window_days, x.sell_threshold_pct,
      x.sell_window_days, x.deployment_per_trade_usd>>

\* the Cartesian product of the lever candidates, as a set
LeverProduct(g) ==
    Range(g.buy_threshold_values) \X Range(g.buy_window_values)
        \X Range(g.sell_threshold_values) \X Range(g.sell_window_values)
        \X (IF g.deployment_values = <<>> THEN {None}
            ELSE {<<v>> : v \in Range(g.deployment_values)})

LeverCount(g) ==
    Len(g.buy_threshold_values) * Len(g.buy_window_values)
        * Len(g.sell_threshold_values) * Len(g.sell_window_values)
        * (IF g.deployment_values = <<>> THEN 1 ELSE Len(g.deployment_values))

\* C11: the table run_grid_search returns has exactly one row per element of
\* the Cartesian product of the lever candidates (times the deployment values
\* when there are any), every combination once; a 3x3x3x3 sweep without a
\* deployment sweep returns 81 rows.
C11_OneRowPerCombination ==
    ret.status = "returned" =>
        LET g == grid.args
        IN  /\ Len(ret.out) = LeverCount(g)
            /\ Cardinality(LeverProduct(g)) = LeverCount(g)
            /\ {LeverTuple(ret.out[i]) : i \in DOMAIN ret.out} = LeverProduct(g)
            /\ (/\ Len(g.buy_threshold_values) = 3
                /\ Len(g.buy_window_values) = 3
                /\ Len(g.sell_threshold_values) = 3
                /\ Len(g.sell_window_values) = 3
                /\ g.deployment_values = <<>>) => Len(ret.out) = 81

C11_Witness ==
    /\ ret.status = "returned"
    /\ Len(ret.out) = 81
    /\ \E i, j \in DOMAIN ret.out :
          ret.out[i].trade_count > 0 /\ ret.out[j].trade_count = 0

\* C12: in the returned table a strictly higher final_total_wealth comes
\* first; among equal wealth the higher (less negative) max_drawdown_pct comes
\* first and an undefined max_drawdown_pct comes last; among rows equal on
\* both the higher trade_count comes first.
C12_RankedBestFirst ==
    ret.status = "returned" =>
        \A i, j \in DOMAIN ret.out :
            i < j =>
                LET a == ret.out[i]
                    b == ret.out[j]
                IN  /\ RLe(b.final_total_wealth, a.final_total_wealth)
                    /\ a.final_total_wealth = b.final_total_wealth =>
                          /\ a.max_drawdown_pct = None => b.max_drawdown_pct = None
                          /\ (a.max_drawdown_pct # None /\ b.max_drawdown_pct # None)
                                => RLe(b.max_drawdown_pct, a.max_drawdown_pct)
                          /\ a.max_drawdown_pct = b.max_drawdown_pct
                                => a.trade_count >= b.trade_count

\* a returned table with a wealth tie broken by drawdown, an undefined
\* drawdown ranked below a defined one, and a tie on both broken by trades
C12_Witness ==
    /\ ret.status = "returned"
    /\ \E i, j \in DOMAIN ret.out :
          /\ i < j
          /\ ret.out[i].final_total_wealth = ret.out[j].final_total_wealth
          /\ ret.out[i].max_drawdown_pct # None
          /\ ret.out[j].max_drawdown_pct = None
    /\ \E i, j \in DOMAIN ret.out :
          /\ i < j
          /\ ret.out[i].final_total_wealth = ret.out[j].final_total_wealth
          /\ ret.out[i].max_drawdown_pct = ret.out[j].max_drawdown_pct
          /\ ret.out[i].trade_count > ret.out[j].trade_count
    /\ \E i, j \in DOMAIN ret.out :
          RLt(ret.out[j].final_total_wealth, ret.out[i].final_total_wealth)

\* C13: the progress callback is called once after each completed
\* combination with (completed, total), completed counting 1, 2, ... and total
\* the number of combinations; the ranked table is produced only after the
\* last call, when all of them have been made; without a callback no call is
\* made and the sweep completes its combinations the same way.
C13_ProgressAfterEachCombination ==
    [][LET g == grid.args
           total == LeverCount(g)
       IN  /\ Len(grid'.rows) # Len(grid.rows) =>
                 /\ Len(grid'.rows) = Len(grid.rows) + 1
                 /\ ret'.status = "running"
                 /\ grid'.calls =
                       IF g.progress_callback
                       THEN Append(grid.calls, <<Len(grid'.rows), total>>)
                       ELSE <<>>
           /\ Len(grid'.rows) = Len(grid.rows) => grid'.calls = grid.calls
           /\ ret'.status = "returned" =>
                 /\ Len(grid.rows) = total
                 /\ grid'.calls = grid.calls
                 /\ g.progress_callback =>
                       grid.calls = [i \in 1..total |-> <<i, total>>]
                 /\ ~g.progress_callback => grid.calls = <<>>]_vars

C13_Witness ==
    /\ ret.status = "returned"
    /\ grid.args.progress_callback
    /\ grid.args.deployment_values # <<>>
    /\ Len(grid.calls) = 8

\* ------------------------------------------------------------------------
\* Properties of build_float_grid and build_int_grid
\* ------------------------------------------------------------------------
\* the step of the call is zero or negative
StepNotPositive ==
    IF grid.args.fn = "build_int_grid" THEN grid.args.step <= 0
    ELSE grid.args.step[1] <= 0

\* end is below start
EndBelowStart ==
    IF grid.args.fn = "build_int_grid" THEN grid.args.end < grid.args.start
    ELSE RLt(grid.args.end, grid.args.start)

\* C14: called with step <= 0, build_float_grid and build_int_grid return the
\* one-element list [start] whatever start and end are (end < start
\* included), in one step from the call: no exception and no loop iteration.
C14_NonPositiveStepGivesStart ==
    [][(pc = "call" /\ StepNotPositive) =>
          /\ pc' = "done"
          /\ ret' = Built(<<grid.args.start>>)
          /\ grid'.guard = 0]_vars

C14_Witness ==
    /\ pc = "done"
    /\ grid.args.fn = "build_float_grid"
    /\ StepNotPositive
    /\ EndBelowStart
    /\ ret = Built(<<grid.args.start>>)

\* the number of elements C15 states: floor((end - start) / step) + 1
StatedCount == ((grid.args.end - grid.args.start) \div grid.args.step) + 1

\* C15 as stated: for step > 0 build_int_grid returns exactly
\* floor((end-start)/step)+1 elements, for every start and end.
C15_CountAsStated ==
    (pc = "done" /\ grid.args.fn = "build_int_grid" /\ grid.args.step > 0) =>
        Len(ret.out) = StatedCount

\* C15, amended: for step > 0 build_int_grid returns start, start+step, ...,
\* every element at most end and the next one above end: that is
\* floor((end-start)/step)+1 elements when end >= start and none when
\* end < start.
C15_CountClampedAtZero ==
    (pc = "done" /\ grid.args.fn = "build_int_grid" /\ grid.args.step > 0) =>
        LET a == grid.args
            n == Len(ret.out)
        IN  /\ n = IF a.end >= a.start THEN StatedCount ELSE 0
            /\ \A i \in 1..n : ret.out[i] = a.start + (i - 1) * a.step
            /\ \A i \in 1..n : ret.out[i] <= a.end
            /\ a.start + n * a.step > a.end

C15_Witness ==
    /\ pc = "done"
    /\ grid.args.fn = "build_int_grid"
    /\ grid.args.step = 2
    /\ grid.args.end = grid.args.start + 3
    /\ Len(ret.out) = 2

\* C16: neither builder returns more than the hard upper bound of points.
C16_AtMostGuardLimitPoints ==
    pc = "done" => Len(ret.out) <= GuardLimit

\* ------------------------------------------------------------------------
\* Further properties of run_threshold_simulation
\* ------------------------------------------------------------------------
\* how many times x occurs in q
Occurrences(q, x) == Cardinality({i \in DOMAIN q : q[i] = x})

\* (dt, ticker, action) of a comes no later than that of b
KeyInOrder(a, b) ==
    \/ a.dt < b.dt
    \/ a.dt = b.dt /\ a.ticker = "A" /\ b.ticker = "B"
    \/ a.dt = b.dt /\ a.ticker = b.ticker /\ ~(a.action = "SELL" /\ b.action = "BUY")

\* C17: the returned trade log is in ascending (timestamp, ticker, action)
\* order and holds exactly the executed trades: each as often as it was
\* executed, none dropped, none added.
C17_TradeLogSortedAndComplete ==
    (pc = "done" /\ ret.status = "returned") =>
        /\ \A i, j \in DOMAIN ret.trades_df :
              i < j => KeyInOrder(ret.trades_df[i], ret.trades_df[j])
        /\ Len(ret.trades_df) = Len(sim.trades)
        /\ \A x \in Range(sim.trades) \cup Range(ret.trades_df) :
              Occurrences(ret.trades_df, x) = Occurrences(sim.trades, x)

\* a returned log of several trades that the sort had to reorder
C17_Witness ==
    /\ pc = "done"
    /\ ret.status = "returned"
    /\ Len(ret.trades_df) >= 3
    /\ ret.trades_df # sim.trades
    /\ \E i \in DOMAIN ret.trades_df : ret.trades_df[i].action = "SELL"

\* the inner loop is at ticker t, and its step observes a price for t and
\* completes
Observed(t) ==
    /\ pc = "tickers"
    /\ k <= Len(cfg.tickers)
    /\ t = cfg.tickers[k]
    /\ k' = k + 1
    /\ Len(sim'.state[t].history) = Len(sim.state[t].history) + 1

\* the step appends a trade of ticker t with this action
Traded(t, action) ==
    /\ Len(sim'.trades) = Len(sim.trades) + 1
    /\ Last(sim'.trades).ticker = t
    /\ Last(sim'.trades).action = action

ValidWindows == cfg.buy_window_days >= 1 /\ cfg.sell_window_days >= 1

\* percent change of the latest price of hist against the one w observations
\* before it, for 1 <= w < Len(hist)
ReturnOver(hist, w) ==
    RMul(RSub(RDiv(hist[Len(hist)], hist[Len(hist) - w]), R(1)), R(100))

\* after the step's observation, the buy return of t is defined and reaches
\* the buy threshold
BuyCondition(t) ==
    LET hist == sim'.state[t].history
    IN  /\ Len(hist) > cfg.buy_window_days
        /\ RLe(R(cfg.buy_threshold_pct), ReturnOver(hist, cfg.buy_window_days))

\* after the step's observation, the sell return of t is defined and meets
\* the sell threshold in the direction of the sell mode
SellCondition(t) ==
    LET hist == sim'.state[t].history
        th == R(Abs(cfg.sell_threshold_pct))
    IN  /\ Len(hist) > cfg.sell_window_days
        /\ IF cfg.sell_mode = "Sell on drop"
           THEN RLe(ReturnOver(hist, cfg.sell_window_days), RNeg(th))
           ELSE RLe(th, ReturnOver(hist, cfg.sell_window_days))

\* a buy of t would not be skipped: the unit is positive, and cash covers it
\* or leverage is allowed
CashAllows(t) ==
    /\ cfg.buy_unit_by_ticker[t] > 0
    /\ cfg.allow_leverage \/ RLe(R(cfg.buy_unit_by_ticker[t]), sim.cash_balance)

\* C18: a ticker holding no shares is bought at an observed price exactly when
\* (allow_reentry or the ticker was never bought) and its buy return is
\* defined and at least buy_threshold_pct and the buy is not skipped for cash
\* or unit; so with allow_reentry = false no BUY of a ticker follows a SELL of
\* it (with allow_reentry = true one can: C18_Witness).
C18_FlatTickerBoughtIffAllowed ==
    [][/\ \A t \in TickerSet(cfg) :
            (ValidWindows /\ Observed(t) /\ RLe(sim.state[t].shares, R(0))) =>
                (Traded(t, "BUY") <=>
                    /\ cfg.allow_reentry \/ Buys(t) = {}
                    /\ BuyCondition(t)
                    /\ CashAllows(t))
       /\ \A t \in TickerSet(cfg) :
            (Traded(t, "BUY") /\ ~cfg.allow_reentry) => Sells(t) = {}]_vars

C18_Witness ==
    /\ cfg.allow_reentry
    /\ ValidWindows
    /\ \E t \in TickerSet(cfg) : \E i, j, l \in 1..Len(sim.trades) :
          /\ i < j /\ j < l
          /\ {i, l} \subseteq Buys(t)
          /\ j \in Sells(t)
          /\ RLe(sim.trades[l].shares_after, sim.trades[l].shares)

\* the sell branch of a held ticker: a true sell signal sells the whole
\* position and buys nothing, whatever the buy condition
SellFirst(t) ==
    SellCondition(t) =>
        /\ Traded(t, "SELL")
        /\ Last(sim'.trades).shares = sim.state[t].shares
        /\ sim'.state[t].shares = R(0)
        /\ sim'.state[t].buy_count = sim.state[t].buy_count

\* the step adds one buy unit to the position of t
UnitAdded(t) ==
    /\ Traded(t, "BUY")
    /\ Last(sim'.trades).order_usd = R(cfg.buy_unit_by_ticker[t])
    /\ RLt(sim.state[t].shares, sim'.state[t].shares)
    /\ sim'.state[t].buy_count = sim.state[t].buy_count + 1

\* C19 as stated: for a held ticker a true sell signal sells the whole
\* position and nothing is bought; with the sell signal false and the buy
\* condition true one more unit is added, every time.
C19_SellElsePyramid ==
    [][\A t \in TickerSet(cfg) :
          (ValidWindows /\ Observed(t) /\ RLt(R(0), sim.state[t].shares)) =>
              /\ SellFirst(t)
              /\ (~SellCondition(t) /\ BuyCondition(t)) => UnitAdded(t)]_vars

\* C19, amended: for a held ticker a true sell signal sells the whole position
\* and nothing is bought, even when the buy condition is true too; with the
\* sell signal false and the buy condition true one more unit is added,
\* however many were bought before, unless the buy is skipped for cash or
\* unit, and then nothing is traded.
C19_SellElsePyramidUnlessSkipped ==
    [][\A t \in TickerSet(cfg) :
          (ValidWindows /\ Observed(t) /\ RLt(R(0), sim.state[t].shares)) =>
              /\ SellFirst(t)
              /\ (~SellCondition(t) /\ BuyCondition(t) /\ CashAllows(t)) =>
                    UnitAdded(t)
              /\ (~SellCondition(t) /\ BuyCondition(t) /\ ~CashAllows(t)) =>
                    /\ sim'.trades = sim.trades
                    /\ sim'.state[t].shares = sim.state[t].shares
                    /\ sim'.cash_balance = sim.cash_balance]_vars

\* a ticker bought twice in a row and then sold at a price where its buy
\* condition held as well
C19_Witness ==
    /\ ValidWindows
    /\ \E t \in TickerSet(cfg) :
          /\ Cardinality(Buys(t)) >= 2
          /\ \E j \in Sells(t) :
                /\ \A i \in Buys(t) : i < j
                /\ cfg.buy_window_days = cfg.sell_window_days
                /\ RLe(R(cfg.buy_threshold_pct), sim.trades[j].signal_return_pct)

\* C20: the trailing return over N observations exists only once the ticker
\* has more than N observed prices: with N or fewer there is neither a BUY nor
\* a SELL, whatever the thresholds; a trade carries the return over its
\* window; and with a buy threshold no return can miss, a flat ticker that may
\* be bought is bought as soon as it has more than N prices.
C20_SignalNeedsMoreThanWindow ==
    [][\A t \in TickerSet(cfg) :
          Observed(t) =>
              LET hist == sim'.state[t].history
              IN  /\ Len(hist) <= cfg.buy_window_days => ~Traded(t, "BUY")
                  /\ Len(hist) <= cfg.sell_window_days => ~Traded(t, "SELL")
                  /\ (ValidWindows /\ Traded(t, "BUY")) =>
                        /\ Last(sim'.trades).signal_window_days = cfg.buy_window_days
                        /\ Last(sim'.trades).signal_return_pct =
                              ReturnOver(hist, cfg.buy_window_days)
                  /\ (ValidWindows /\ Traded(t, "SELL")) =>
                        /\ Last(sim'.trades).signal_window_days = cfg.sell_window_days
                        /\ Last(sim'.trades).signal_return_pct =
                              ReturnOver(hist, cfg.sell_window_days)
                  /\ (/\ ValidWindows
                      /\ Len(hist) > cfg.buy_window_days
                      /\ cfg.buy_threshold_pct <= -100
                      /\ RLe(sim.state[t].shares, R(0))
                      /\ cfg.allow_reentry \/ Buys(t) = {}
                      /\ CashAllows(t)) => Traded(t, "BUY")]_vars

\* a ticker with a window of two, two observed prices and a threshold no
\* return can miss, not yet bought; and bought at the third price
C20_Witness ==
    /\ cfg.buy_window_days = 2
    /\ cfg.buy_threshold_pct <= -100
    /\ \E t \in TickerSet(cfg) :
          /\ Len(sim.state[t].history) = 3
          /\ Cardinality(Buys(t)) = 1
          /\ \A i \in Buys(t) : sim.trades[i].dt = dt /\ nrows >= 3

\* the inner loop is at ticker t and its step finds the price of t missing:
\* it completes without an observation
Missing(t) ==
    /\ pc = "tickers"
    /\ k <= Len(cfg.tickers)
    /\ t = cfg.tickers[k]
    /\ k' = k + 1
    /\ Len(sim'.state[t].history) = Len(sim.state[t].history)

\* C21: where a ticker's price is missing, its state (history, last price,
\* shares, counts, notional bought, proceeds sold) is unchanged and nothing
\* is traded; the snapshot of every timestamp values each position at its
\* last observed price.
C21_MissingPriceChangesNothing ==
    [][/\ \A t \in TickerSet(cfg) :
            Missing(t) =>
                /\ sim'.state = sim.state
                /\ sim'.trades = sim.trades
                /\ sim'.cash_balance = sim.cash_balance
       /\ Len(sim'.equity_curve) # Len(sim.equity_curve) =>
            Last(sim'.equity_curve).portfolio_value =
                HoldingsValue(sim.state, TickerSet(cfg))]_vars

\* a position bought at the second of two observed prices, a third timestamp
\* without a price, and its snapshot still valuing the position
C21_Witness ==
    /\ pc = "loop"
    /\ nrows = 3
    /\ cfg.buy_window_days = 1
    /\ \E t \in TickerSet(cfg) :
          /\ Len(sim.state[t].history) = 2
          /\ Cardinality(Buys(t)) = 1
          /\ RLt(R(0), sim.state[t].shares)
          /\ Len(sim.equity_curve) = 3
          /\ Last(sim.equity_curve).portfolio_value =
                RMul(sim.state[t].shares, sim.state[t].last_price)
          /\ RLt(R(0), Last(sim.equity_curve).portfolio_value)

\* C22: every panel timestamp gets exactly one snapshot, appended when its
\* tickers are done and carrying its timestamp, in panel order, with or
\* without a trade; in a run without any trade and with zero carry rates every
\* snapshot's total wealth is the starting cash.
C22_OneSnapshotPerTimestamp ==
    /\ [](pc = "loop" => Len(sim.equity_curve) = nrows)
    /\ [](pc = "tickers" => Len(sim.equity_curve) = nrows - 1)
    /\ []((pc = "done" /\ ret.status = "returned") =>
             /\ ret.equity_df = sim.equity_curve
             /\ Len(ret.equity_df) = nrows)
    /\ [](\A i, j \in 1..Len(sim.equity_curve) :
             i < j => sim.equity_curve[i].dt <= sim.equity_curve[j].dt)
    /\ []((/\ pc # "done"
           /\ sim.trades = <<>>
           /\ cfg.annual_cash_yield_pct = 0
           /\ cfg.annual_borrow_rate_pct = 0
           /\ cfg.starting_cash >= 0) =>
             \A i \in 1..Len(sim.equity_curve) :
                 sim.equity_curve[i].total_wealth = R(cfg.starting_cash))
    /\ [][Len(sim'.equity_curve) # Len(sim.equity_curve) =>
             /\ sim'.equity_curve =
                   Append(sim.equity_curve, Last(sim'.equity_curve))
             /\ Last(sim'.equity_curve).dt = dt
             /\ pc = "tickers" /\ k > Len(cfg.tickers) /\ pc' = "loop"]_vars

\* three timestamps of flat observed prices below a positive buy threshold:
\* no trade, three snapshots, each worth the starting cash
C22_Witness ==
    /\ pc = "loop"
    /\ nrows = 3
    /\ sim.trades = <<>>
    /\ cfg.buy_threshold_pct > 0
    /\ cfg.starting_cash > 0
    /\ cfg.annual_cash_yield_pct = 0
    /\ Len(sim.equity_curve) = 3
    /\ \A i \in 1..3 : sim.equity_curve[i].total_wealth = R(cfg.starting_cash)
    /\ \E t \in TickerSet(cfg) :
          /\ Len(sim.state[t].history) = 3
          /\ \A i \in 1..3 : sim.state[t].history[i] = sim.state[t].history[1]

\* C23: for a ticker that holds shares and has a defined sell return, a SELL
\* happens exactly when the return is <= -|sell_threshold_pct| in sell-on-drop
\* mode and >= |sell_threshold_pct| in sell-on-gain mode; the SELL credits
\* cash with shares x price x (1 - fee_bps/10000) and leaves no shares.
C23_SellTriggerAndCredit ==
    [][\A t \in TickerSet(cfg) :
          (/\ ValidWindows
           /\ Observed(t)
           /\ RLt(R(0), sim.state[t].shares)
           /\ Len(sim'.state[t].history) > cfg.sell_window_days) =>
              LET price == Last(sim'.state[t].history)
                  credit == RMul(RMul(sim.state[t].shares, price),
                                 RSub(R(1), RDiv(R(cfg.fee_bps), R(10000))))
              IN  /\ Traded(t, "SELL") <=> SellCondition(t)
                  /\ Traded(t, "SELL") =>
                        /\ sim'.cash_balance = RAdd(sim.cash_balance, credit)
                        /\ Last(sim'.trades).proceeds_net = credit
                        /\ Last(sim'.trades).shares_after = R(0)
                        /\ sim'.state[t].shares = R(0)]_vars

\* a sell-on-drop SELL with a positive fee at a price half the one before,
\* and the threshold entered as -50
C23_Witness ==
    /\ cfg.sell_mode = "Sell on drop"
    /\ cfg.sell_threshold_pct = -50
    /\ cfg.fee_bps > 0
    /\ \E i \in 1..Len(sim.trades) :
          /\ sim.trades[i].action = "SELL"
          /\ sim.trades[i].signal_return_pct = R(-50)
          /\ RLt(R(0), sim.trades[i].proceeds_net)
          /\ RLt(sim.trades[i].proceeds_net,
                 RMul(sim.trades[i].shares, sim.trades[i].price))

\* C24: every executed BUY debits cash by the ticker's buy unit grossed up by
\* (1 + fee_bps/10000).
C24_BuyDebitsGrossedUpUnit ==
    \A i \in 1..Len(sim.trades) :
        sim.trades[i].action = "BUY" =>
            RSub(sim.trades[i].cash_before, sim.trades[i].cash_after) =
                RMul(R(cfg.buy_unit_by_ticker[sim.trades[i].ticker]),
                     RAdd(R(1), RDiv(R(cfg.fee_bps), R(10000))))

\* the arguments of a standalone run with the lever values of result row x:
\* the caller's settings, the row's thresholds and windows, and the row's
\* deployment value, when it has one, as the buy unit of every ticker
StandaloneConfig(x) ==
    [tickers |-> cfg.tickers,
     buy_unit_by_ticker |->
         [t \in DOMAIN cfg.buy_unit_by_ticker |->
             IF x.deployment_per_trade_usd = None THEN cfg.buy_unit_by_ticker[t]
             ELSE x.deployment_per_trade_usd[1]],
     starting_cash |-> cfg.starting_cash,
     annual_cash_yield_pct |-> cfg.annual_cash_yield_pct,
     annual_borrow_rate_pct |-> cfg.annual_borrow_rate_pct,
     allow_leverage |-> cfg.allow_leverage,
     buy_threshold_pct |-> x.buy_threshold_pct,
     buy_window_days |-> x.buy_window_days,
     sell_threshold_pct |-> x.sell_threshold_pct,
     sell_window_days |-> x.sell_window_days,
     sell_mode |-> cfg.sell_mode,
     fee_bps |-> cfg.fee_bps,
     allow_reentry |-> cfg.allow_reentry]

\* C25: the row of every combination is what a standalone
\* run_threshold_simulation with the row's lever values gives on the same
\* panel, whatever ran before it; the sweep never changes the panel or the
\* caller's settings (its buy units included); a deployment value is the buy
\* unit of every ticker for its own combination only.
C25_CombinationsIndependent ==
    [][/\ cfg' = cfg
       /\ price_panel' = price_panel
       /\ Len(grid'.rows) = Len(grid.rows) + 1 =>
            \A x \in {Last(grid'.rows)} :
            \A r \in {run_threshold_simulation(price_panel, StandaloneConfig(x))} :
                /\ LeverTuple(x) = grid.combos[Len(grid'.rows)]
                /\ r.status = "returned"
                /\ x.trade_count = Len(r.trades_df)
                /\ x.final_total_wealth =
                      IF r.equity_df = <<>> THEN R(cfg.starting_cash)
                      ELSE Last(r.equity_df).total_wealth
                /\ x.final_cash =
                      IF r.equity_df = <<>> THEN R(cfg.starting_cash)
                      ELSE Last(r.equity_df).cash_balance
                /\ x.final_invested =
                      IF r.equity_df = <<>> THEN R(0)
                      ELSE Last(r.equity_df).portfolio_value]_vars

\* two combinations that differ in the deployment value only, both trading,
\* ending with different cash
C25_Witness ==
    \E i, j \in 1..Len(grid.rows) :
        /\ i < j
        /\ grid.rows[i].deployment_per_trade_usd = <<1>>
        /\ grid.rows[j].deployment_per_trade_usd = <<2>>
        /\ grid.rows[i].buy_threshold_pct = grid.rows[j].buy_threshold_pct
        /\ grid.rows[i].buy_window_days = grid.rows[j].buy_window_days
        /\ grid.rows[i].trade_count > 0
        /\ grid.rows[j].trade_count > 0
        /\ grid.rows[i].final_cash # grid.rows[j].final_cash
        /\ cfg.buy_unit_by_ticker["A"] = 2

\* the factor (1 + pct/100) ^ (days / 365) for whole years, a negative pct
\* counting as 0
Compound(pct, days) ==
    RPow(RAdd(R(1), RDiv(R(IF pct > 0 THEN pct ELSE 0), R(100))), days \div 365)

\* C26: carry is applied when a timestamp after the first begins, never at
\* the first: positive cash is compounded by the cash yield over the days
\* since the previous timestamp, negative cash by the borrow rate (the debt
\* grows), never by both, and cash keeps its sign; nothing else happens to
\* cash when a timestamp begins.
C26_CarryOneRuleBySign ==
    [][(pc = "loop" /\ pc' = "tickers") =>
          LET cash == sim.cash_balance
              days == dt' - dt
          IN  /\ nrows = 0 => sim'.cash_balance = cash
              /\ nrows > 0 =>
                    sim'.cash_balance =
                        IF RLt(R(0), cash)
                        THEN RMul(cash, Compound(cfg.annual_cash_yield_pct, days))
                        ELSE IF RLt(cash, R(0))
                        THEN RMul(cash, Compound(cfg.annual_borrow_rate_pct, days))
                        ELSE cash
              /\ RLt(R(0), cash) <=> RLt(R(0), sim'.cash_balance)
              /\ RLt(cash, R(0)) <=> RLt(sim'.cash_balance, R(0))
              /\ (/\ nrows > 0 /\ days > 0 /\ RLt(cash, R(0))
                  /\ cfg.annual_borrow_rate_pct > 0) =>
                    RLt(sim'.cash_balance, cash)]_vars

\* a debt doubled by a 100 % borrow rate over the year since the previous
\* snapshot, with a cash yield configured as well
C26_Witness ==
    /\ pc = "tickers"
    /\ k = 1
    /\ nrows >= 2
    /\ cfg.annual_borrow_rate_pct = 100
    /\ cfg.annual_cash_yield_pct = 100
    /\ RLt(sim.cash_balance, R(0))
    /\ dt = Last(sim.equity_curve).dt + 365
    /\ sim.cash_balance = RMul(R(2), Last(sim.equity_curve).cash_balance)

\* C27: a step of the inner loop records at most one trade, for its own
\* ticker and timestamp, and nothing else records trades; so in a panel of
\* distinct timestamps no two trades share (timestamp, ticker), and a ticker
\* sold at a timestamp is not bought at it.
C27_OneTradePerTimestampAndTicker ==
    /\ [][Len(sim'.trades) # Len(sim.trades) =>
             /\ pc = "tickers"
             /\ k <= Len(cfg.tickers)
             /\ k' = k + 1
             /\ sim'.trades = Append(sim.trades, Last(sim'.trades))
             /\ Last(sim'.trades).ticker = cfg.tickers[k]
             /\ Last(sim'.trades).dt = dt]_vars
    /\ [](0 \notin price_panel.gaps =>
             \A i, j \in 1..Len(sim.trades) :
                 (i # j /\ sim.trades[i].ticker = sim.trades[j].ticker) =>
                     sim.trades[i].dt # sim.trades[j].dt)

\* a ticker sold on a gain that met its buy threshold as well, with re-entry
\* allowed: no BUY at that timestamp, and a BUY at the next
C27_Witness ==
    /\ cfg.allow_reentry
    /\ cfg.sell_mode = "Sell on gain"
    /\ cfg.buy_window_days = cfg.sell_window_days
    /\ \E t \in TickerSet(cfg) : \E j \in Sells(t) : \E l \in Buys(t) :
          /\ RLe(R(cfg.buy_threshold_pct), sim.trades[j].signal_return_pct)
          /\ l = j + 1
          /\ sim.trades[l].dt = sim.trades[j].dt + 365
          /\ Len(sim.trades) = l

\* cash plus the position of ticker t at the given price, in state s
WealthAt(s, t, price) == RAdd(s.cash_balance, RMul(s.state[t].shares, price))

\* C28: with fee_bps >= 0 and a positive price, cash plus shares x current
\* price just after a BUY or a SELL is at most what it was just before it,
\* and equal exactly when fee_bps = 0.
C28_TradeNeverAddsWealth ==
    [][\A t \in TickerSet(cfg) :
          (/\ Observed(t)
           /\ Len(sim'.trades) = Len(sim.trades) + 1
           /\ cfg.fee_bps >= 0
           /\ RLt(R(0), Last(sim'.state[t].history))) =>
              LET price == Last(sim'.state[t].history)
                  before == WealthAt(sim, t, price)
                  after == WealthAt(sim', t, price)
              IN  /\ RLe(after, before)
                  /\ after = before <=> cfg.fee_bps = 0]_vars

\* a BUY and a later SELL of one ticker under a positive fee, each worth less
\* than was paid or held
C28_Witness ==
    /\ cfg.fee_bps = 200
    /\ \E t \in TickerSet(cfg) : \E i \in Buys(t) : \E j \in Sells(t) :
          /\ i < j
          /\ RLt(RMul(sim.trades[i].shares, sim.trades[i].price),
                 sim.trades[i].order_usd)
          /\ RLt(sim.trades[j].proceeds_net,
                 RMul(sim.trades[j].shares, sim.trades[j].price))
          /\ cfg.sell_threshold_pct > 0

\* ------------------------------------------------------------------------
\* Properties of the updater
\* ------------------------------------------------------------------------
\* the most attempts a call may make: max(1, retries + 1)
AttemptLimit == IF upd.args.retries >= 1 THEN upd.args.retries + 1 ELSE 1

\* C29: download_ohlcv makes at most max(1, retries+1) attempts; every
\* attempt before the latest raised; it returns the frame of the first attempt
\* that does not raise and stops; it has slept once after each failed attempt
\* but the last possible one, for max(0.5, backoff) x attempt seconds; and it
\* raises RuntimeError exactly when all max(1, retries+1) attempts raised.
C29_DownloadRetries ==
    LET made == Len(upd.outcomes)
        failed == {i \in 1..made : upd.outcomes[i] = "raise"}
    IN  /\ made <= AttemptLimit
        /\ \A i \in 1..(made - 1) : upd.outcomes[i] = "raise"
        /\ ret.status = "returned" <=> (made >= 1 /\ upd.outcomes[made] = "ok")
        /\ ret.status = "returned" => ret.out = <<"df", made>>
        /\ Len(upd.sleeps) = Cardinality(failed \ {AttemptLimit})
        /\ \A i \in 1..Len(upd.sleeps) :
              upd.sleeps[i] =
                  IF RLt(upd.args.retry_backoff_s, <<1, 2>>) THEN RMul(<<1, 2>>, R(i))
                  ELSE RMul(upd.args.retry_backoff_s, R(i))
        /\ (ret.status = "raised" /\ ret.exc = "RuntimeError") <=>
              (pc = "done" /\ made = AttemptLimit /\ failed = 1..AttemptLimit)

\* three attempts with retries = 2, all failed: two sleeps, then RuntimeError
C29_Witness ==
    /\ pc = "done"
    /\ upd.args.retries = 2
    /\ upd.outcomes = <<"raise", "raise", "raise">>
    /\ Len(upd.sleeps) = 2
    /\ ret.exc = "RuntimeError"

\* the tickers whose turn in the loop of main is over
Processed ==
    IF pc \in TickerSteps THEN 1..(upd.idx - 1) ELSE 1..upd.idx

\* the tickers whose transaction was committed
Committed == {t \in Processed : \A i \in 1..Len(upd.failed_tickers) :
                                    upd.failed_tickers[i] # t}

\* what a step inside the loop of main does to the transactions
TickerStep ==
    pc \in TickerSteps =>
        /\ upd.conn.committed \subseteq upd'.conn.committed
        /\ Len(upd'.failed_tickers) > Len(upd.failed_tickers) =>
              /\ upd'.conn.committed = upd.conn.committed
              /\ upd'.conn.working = upd.conn.committed
              /\ upd'.success_count = upd.success_count
              /\ ret' = ret
              /\ upd.idx < upd.tickers =>
                    (pc' = "download_1d" /\ upd'.idx = upd.idx + 1)
        /\ upd'.success_count > upd.success_count =>
              \A r \in upd'.conn.committed \ upd.conn.committed :
                  r[2] = upd.idx

\* C30: in the loop of main every ticker is either committed or failed; only
\* rows of committed tickers are ever committed; a ticker's failure rolls the
\* open transaction back to what was committed, changes nothing committed and
\* moves on to the next ticker; a ticker's commit adds rows of that ticker
\* only and removes none; main then returns after every ticker had its turn,
\* 0 if some ticker committed and the cleanup did not fail, 1 if none did.
C30_TickerTransactions ==
    /\ [](pc \in TickerSteps \cup {"cleanup", "return"} \/
          (pc = "done" /\ ret.status = "returned" /\
           upd.failed_step # "truncate") =>
            /\ upd.success_count = Cardinality(Committed)
            /\ upd.success_count + Len(upd.failed_tickers) =
                   Cardinality(Processed)
            /\ \A r \in upd.conn.committed :
                  r[2] = 0 \/ r[2] \in Committed)
    /\ [](pc = "done" /\ ret.status = "returned" /\
          upd.failed_step # "truncate" =>
            /\ Processed = 1..upd.tickers
            /\ (upd.success_count >= 1 /\ upd.failed_step # "cleanup") =>
                  ret.out = 0
            /\ upd.success_count = 0 => ret.out = 1)
    /\ [][TickerStep]_vars

\* three tickers of which the second failed after its daily rows were
\* written: main returned 0 with the rows of the first and third committed
C30_Witness ==
    /\ pc = "done"
    /\ ret.status = "returned"
    /\ ret.out = 0
    /\ upd.tickers = 3
    /\ upd.intraday_enabled
    /\ upd.failed_tickers = <<2>>
    /\ upd.success_count = 2
    /\ {Row("prices_1d", 1), Row("prices_1d", 3)} \subseteq upd.conn.committed
    /\ \A r \in upd.conn.committed : r[2] # 2

====
